---- MODULE Spec2Model ----
(***************************************************************************)
(* A model of scripts/gen.py: the override resolver (class Override), the  *)
(* type classifier (map_type, get_type), the dependency tree builder and   *)
(* the emission scheduler (File.build_tree, File.output_tree) and the      *)
(* rendering of one grouping (File.output, output_class).                  *)
(*                                                                         *)
(* Python strings are sequences of one-character strings, so that lstrip,  *)
(* startswith, "[%s]" formatting and the lexical order used by sorted()    *)
(* are computed character by character.  Python dicts are functions; a key *)
(* is present iff it is in the DOMAIN.                                     *)
(***************************************************************************)
EXTENDS Integers, Sequences, FiniteSets, TLC

VARIABLES
    filename,        \* File.filename
    resources,       \* File.resources: class name -> props
    properties,      \* File.properties: class name -> props
    resource_names,  \* File.resource_names: class name -> resource type string
    override,        \* File.override.override: the loaded override document
    hashseed,        \* what decides the iteration order of a dict in this run
    run,             \* 1 or 2: how often the same input has been compiled
    pc,              \* position inside File.output()
    exc,             \* the exception that ended the run, s_NoExc while there is none
    printedImports,  \* the import lines printed so far
    printedHeader,   \* the header block printed, <<>> if none
    printedClasses,  \* the class definitions printed so far, in order
    roots,           \* sorted(self.resources.items()) still to be processed
    tree,            \* the Node tree of the current root: path -> node
    bstack,          \* the call stack of build_tree
    ostack,          \* the call stack of output_tree
    seen,            \* the seen dict of File.output
    firstOutput      \* what run 1 printed, kept to compare run 2 with

vars == <<filename, resources, properties, resource_names, override, hashseed,
          run, pc, exc, printedImports, printedHeader, printedClasses, roots,
          tree, bstack, ostack, seen, firstOutput>>

(***************************************************************************)
(* Bounds                                                                  *)
(***************************************************************************)
\* Depth at which the recursion of build_tree is cut off with a
\* RecursionError.  Any value above the number of property definitions is
\* reached only on a cyclic reference graph.
MaxDepth == 4

\* Dict iteration orders tried: hashseed ranges over 0 .. MaxSeed.
MaxSeed == 1

(***************************************************************************)
(* String literals                                                         *)
(***************************************************************************)
s_Tags == <<"T","a","g","s">>
s_Tag == <<"T","a","g">>
s_List == <<"L","i","s","t">>
s_Map == <<"M","a","p">>
s_None == <<"N","o","n","e">>
s_dict == <<"d","i","c","t">>
s_common == <<"c","o","m","m","o","n","/">>
s_Boolean == <<"B","o","o","l","e","a","n">>
s_Double == <<"D","o","u","b","l","e">>
s_Integer == <<"I","n","t","e","g","e","r">>
s_Json == <<"J","s","o","n">>
s_Long == <<"L","o","n","g">>
s_String == <<"S","t","r","i","n","g">>
s_Timestamp == <<"T","i","m","e","s","t","a","m","p">>
s_boolean == <<"b","o","o","l","e","a","n">>
s_float == <<"f","l","o","a","t">>
s_integer == <<"i","n","t","e","g","e","r">>
s_basestring == <<"b","a","s","e","s","t","r","i","n","g">>
s_validators == <<"v","a","l","i","d","a","t","o","r","s">>
s_troposphere == <<"t","r","o","p","o","s","p","h","e","r","e">>
s_dot == <<".">>
s_AWSObject == <<"A","W","S","O","b","j","e","c","t">>
s_AWSProperty == <<"A","W","S","P","r","o","p","e","r","t","y">>

\* Exceptions (values of exc)
s_NoExc == "none"
s_KeyError == "KeyError"
s_AttributeError == "AttributeError"
s_RecursionError == "RecursionError"

(***************************************************************************)
(* Python built-ins                                                        *)
(***************************************************************************)
\* The characters used, in code point order.
CodePoints ==
    <<".", "/", ":",
      "A","B","C","D","E","F","G","H","I","J","K","L","M","N","O","P","Q",
      "R","S","T","U","V","W","X","Y","Z", "[", "]", "_",
      "a","b","c","d","e","f","g","h","i","j","k","l","m","n","o","p","q",
      "r","s","t","u","v","w","x","y","z">>

ord == [c \in {CodePoints[i] : i \in DOMAIN CodePoints} |->
           CHOOSE i \in DOMAIN CodePoints : CodePoints[i] = c]

\* a < b for Python strings
RECURSIVE StrLess(_, _)
StrLess(a, b) ==
    IF b = <<>> THEN FALSE
    ELSE IF a = <<>> THEN TRUE
    ELSE IF a[1] = b[1] THEN StrLess(Tail(a), Tail(b))
    ELSE ord[a[1]] < ord[b[1]]

\* The ascending arrangement of the list s, equal elements in their given
\* order; rank(k) is the position of s[k] in it.
Ascend(s) ==
    LET n == Len(s)
        rank(k) == 1 + Cardinality({j \in 1..n :
                         StrLess(s[j], s[k]) \/ (s[j] = s[k] /\ j < k)})
    IN  [i \in 1..n |-> s[CHOOSE k \in 1..n : rank(k) = i]]

\* sorted(list of strings); the list is evaluated once.
sorted(s) == CHOOSE r \in {Ascend(v) : v \in {s}} : TRUE

\* The list s started at its element k + 1
RotateBy(s, k) ==
    IF s = <<>> THEN s
    ELSE LET n == Len(s)
         IN  [i \in 1..n |-> s[((i - 1 + k) % n) + 1]]

Rotate(s, k) == CHOOSE r \in {RotateBy(v, k) : v \in {s}} : TRUE

RECURSIVE SetToSeq(_)
SetToSeq(S) ==
    IF S = {} THEN <<>>
    ELSE LET x == CHOOSE y \in S : TRUE IN <<x>> \o SetToSeq(S \ {x})

\* The keys of dict d in the order a plain iteration (d.items(),
\* d.iteritems()) yields them: some order fixed by the hash seed of the run.
DictKeys(d, seed) == Rotate(sorted(SetToSeq(DOMAIN d)), seed)

\* s.startswith(p)
startswith(s, p) == Len(s) >= Len(p) /\ SubSeq(s, 1, Len(p)) = p

\* s.lstrip(chars): drops every leading character that occurs in chars.
RECURSIVE lstrip(_, _)
lstrip(s, chars) ==
    IF s = <<>> THEN s
    ELSE IF \E i \in DOMAIN chars : chars[i] = s[1] THEN lstrip(Tail(s), chars)
    ELSE s

\* x in list
InList(x, l) == \E i \in DOMAIN l : l[i] = x

\* None, and a value that is not None
None == [isNone |-> TRUE]
Some(v) == [isNone |-> FALSE, v |-> v]

\* A raised exception, and a normal return
Raise(e) == [raised |-> TRUE, exc |-> e]
Return(v) == [raised |-> FALSE, v |-> v]

(***************************************************************************)
(* class Override                                                          *)
(*                                                                         *)
(* The loaded document o is None (yaml.load of an empty file), the empty   *)
(* dict (no file) or a dict with the optional keys header and classes.     *)
(* classes maps a class name to an entry with the optional key validator   *)
(* and, under fields, its per-field entries; a per-field entry has the     *)
(* optional keys required and validator.  Field names differ from          *)
(* 'validator' and no validator name contains the word 'validator'.        *)
(***************************************************************************)
\* `if self.override:`
Truthy(o) == o # None /\ DOMAIN o # {}

\* self.override['classes'][class_name][prop] does not raise KeyError
HasFieldEntry(o, class_name, prop) ==
    /\ "classes" \in DOMAIN o
    /\ class_name \in DOMAIN o.classes
    /\ prop \in DOMAIN o.classes[class_name].fields

\* Override.get_header
Override_get_header(o) ==
    IF o = None THEN Raise(s_AttributeError)
    ELSE IF "header" \in DOMAIN o THEN Return(o.header)
    ELSE Return(<<>>)

\* get_required as it would be with `if v: return v`: an explicit false is
\* lost.
Override_get_required_truthy(o, class_name, prop) ==
    IF ~Truthy(o) THEN None
    ELSE IF /\ HasFieldEntry(o, class_name, prop)
            /\ "required" \in DOMAIN o.classes[class_name].fields[prop]
            /\ o.classes[class_name].fields[prop].required
         THEN Some(TRUE)
         ELSE None

\* Override.get_required
Override_get_required(o, class_name, prop) ==
    IF ~Truthy(o) THEN None
    ELSE IF /\ HasFieldEntry(o, class_name, prop)
            /\ "required" \in DOMAIN o.classes[class_name].fields[prop]
         THEN Some(o.classes[class_name].fields[prop].required)
         ELSE None

\* Override.get_validator
Override_get_validator(o, class_name, prop) ==
    IF ~Truthy(o) THEN None
    ELSE IF /\ HasFieldEntry(o, class_name, prop)
            /\ "validator" \in DOMAIN o.classes[class_name].fields[prop]
         THEN Some(lstrip(o.classes[class_name].fields[prop].validator, s_common))
         ELSE None

\* Override.get_class_validator
Override_get_class_validator(o, class_name) ==
    IF ~Truthy(o) THEN None
    ELSE IF /\ "classes" \in DOMAIN o
            /\ class_name \in DOMAIN o.classes
            /\ "validator" \in DOMAIN o.classes[class_name]
         THEN Some(lstrip(o.classes[class_name].validator, s_common))
         ELSE None

\* The ignore list of get_validator_list
ignore == <<s_dict>>

\* `if validator not in ignore and validator not in vlist: vlist.append(..)`
AppendIfNew(vlist, validator) ==
    IF ~InList(validator, ignore) /\ ~InList(validator, vlist)
    THEN Append(vlist, validator)
    ELSE vlist

\* The same, with the list built so far evaluated once
AppendValidator(vlist, validator) ==
    CHOOSE r \in {AppendIfNew(l, validator) : l \in {vlist}} : TRUE

\* The first loop of get_validator_list, over the classes in keys
RECURSIVE ClassValidators(_, _, _)
ClassValidators(classes, keys, vlist) ==
    IF keys = <<>> THEN vlist
    ELSE LET v == classes[keys[1]]
         IN  ClassValidators(classes, Tail(keys),
                 IF "validator" \in DOMAIN v
                 THEN AppendValidator(vlist, v.validator)
                 ELSE vlist)

\* The inner loop of the second loop, over the per-field entries in keys
RECURSIVE FieldValidators(_, _, _)
FieldValidators(fields, keys, vlist) ==
    IF keys = <<>> THEN vlist
    ELSE LET vp == fields[keys[1]]
         IN  FieldValidators(fields, Tail(keys),
                 IF "validator" \in DOMAIN vp
                 THEN AppendValidator(vlist, vp.validator)
                 ELSE vlist)

\* The second loop of get_validator_list
RECURSIVE PropValidators(_, _, _, _)
PropValidators(classes, keys, seed, vlist) ==
    IF keys = <<>> THEN vlist
    ELSE LET v == classes[keys[1]]
         IN  PropValidators(classes, Tail(keys), seed,
                 FieldValidators(v.fields, DictKeys(v.fields, seed), vlist))

\* Override.get_validator_list
Override_get_validator_list(o, seed) ==
    IF ~Truthy(o) THEN Return(<<>>)
    ELSE IF "classes" \notin DOMAIN o THEN Raise(s_KeyError)
    ELSE LET keys == DictKeys(o.classes, seed)
             v1 == ClassValidators(o.classes, keys, <<>>)
         IN  Return(sorted(PropValidators(o.classes, keys, seed, v1)))

(***************************************************************************)
(* Type classification: map_type, get_type, get_required                   *)
(***************************************************************************)
map_type ==
    (s_Boolean :> s_boolean) @@ (s_Double :> s_float) @@
    (s_Integer :> s_integer) @@ (s_Json :> s_dict) @@
    (s_Long :> s_integer) @@ (s_String :> s_basestring) @@
    (s_Timestamp :> s_basestring)

\* "[%s]" % x
Bracket(x) == <<"[">> \o x \o <<"]">>

\* map_type.get(k): None, formatted by %s as the text None, for a missing key
map_type_get(k) == IF k \in DOMAIN map_type THEN map_type[k] ELSE s_None

\* map_type.get(k, k)
map_type_get_default(k) == IF k \in DOMAIN map_type THEN map_type[k] ELSE k

\* get_type
get_type(value) ==
    IF "PrimitiveType" \in DOMAIN value
    THEN map_type_get_default(value.PrimitiveType)
    ELSE IF value.Type = s_List
         THEN IF "ItemType" \in DOMAIN value
              THEN Bracket(value.ItemType)
              ELSE Bracket(map_type_get(value.PrimitiveItemType))
         ELSE IF value.Type = s_Map THEN s_dict
         ELSE value.Type

\* get_required (module level)
get_required(value) == value.Required

(***************************************************************************)
(* class File: imports                                                     *)
(***************************************************************************)
\* One printed line `from <from> import <import>`
ImportLine(f, i) == [from |-> f, import |-> i]

\* File._check_type
File_check_type(check_type, value) ==
    IF "PrimitiveType" \in DOMAIN value
    THEN value.PrimitiveType = check_type
    ELSE IF value.Type = s_List
         THEN IF "ItemType" \in DOMAIN value
              THEN value.ItemType = check_type
              ELSE value.PrimitiveItemType = check_type
         ELSE FALSE

\* File._walk_for_type: the search through the resources, then the properties
File_walk_for_type(check_type, res, props) ==
    \/ \E c \in DOMAIN res : \E k \in DOMAIN res[c] :
           File_check_type(check_type, res[c][k])
    \/ \E c \in DOMAIN props : \E k \in DOMAIN props[c] :
           File_check_type(check_type, props[c][k])

\* One of the two loops of File._output_tags: it prints and returns at the
\* first field named Tags without a validator override.
TagsLoopHits(table, o) ==
    \E c \in DOMAIN table : \E key \in DOMAIN table[c] :
        key = s_Tags /\ Override_get_validator(o, c, key) = None

\* File._output_tags without its second loop, over the properties
File_output_tags_resources_only(res, props, o) ==
    IF TagsLoopHits(res, o) THEN <<ImportLine(s_troposphere, s_Tags)>> ELSE <<>>

\* File._output_tags: the lines it prints
File_output_tags(res, props, o) ==
    IF TagsLoopHits(res, o) THEN <<ImportLine(s_troposphere, s_Tags)>>
    ELSE IF TagsLoopHits(props, o) THEN <<ImportLine(s_troposphere, s_Tags)>>
    ELSE <<>>

\* The import line of one override validator (lines 230-236)
ValidatorImport(fname, v) ==
    IF startswith(v, s_common)
    THEN ImportLine(s_dot \o s_validators, lstrip(v, s_common))
    ELSE ImportLine(s_dot \o fname \o <<"_">> \o s_validators, v)

\* File._output_validators, up to the call of get_validator_list: the
\* imports of the common validators boolean and integer
CommonValidatorImports(res, props) ==
    (IF File_walk_for_type(s_Boolean, res, props)
     THEN <<ImportLine(s_dot \o s_validators, s_boolean)>> ELSE <<>>)
    \o
    (IF File_walk_for_type(s_Integer, res, props)
     THEN <<ImportLine(s_dot \o s_validators, s_integer)>> ELSE <<>>)

\* File._output_imports
File_output_imports(res, props) ==
    (IF DOMAIN res # {} THEN <<ImportLine(s_dot, s_AWSObject)>> ELSE <<>>)
    \o
    (IF DOMAIN props # {} THEN <<ImportLine(s_dot, s_AWSProperty)>> ELSE <<>>)

(***************************************************************************)
(* class File: the dependency tree                                         *)
(***************************************************************************)
\* File._get_property_type
File_get_property_type(value) ==
    IF "PrimitiveType" \in DOMAIN value THEN None
    ELSE IF value.Type = s_List
         THEN IF "ItemType" \in DOMAIN value THEN Some(value.ItemType) ELSE None
         ELSE IF value.Type = s_Map THEN None
         ELSE Some(value.Type)

\* The loop of File._get_type_list over the keys in iteration order
RECURSIVE CollectTypes(_, _)
CollectTypes(props, keys) ==
    IF keys = <<>> THEN <<>>
    ELSE LET t == File_get_property_type(props[keys[1]])
         IN  (IF t # None THEN <<t.v>> ELSE <<>>) \o CollectTypes(props, Tail(keys))

\* File._get_type_list
File_get_type_list(props, seed) == sorted(CollectTypes(props, DictKeys(props, seed)))

\* The type list as build_tree uses it (it sorts the list once more)
BuildTypeList(props, seed) == sorted(File_get_type_list(props, seed))

\* Node(name, props, resource_name); children are the nodes at path \o <<1>>,
\* ..., path \o <<nchildren>>
Node(name, props, resource_name) ==
    [name |-> name, props |-> props, resource_name |-> resource_name,
     nchildren |-> 0]

\* build_tree without the test for Tag
IsTag_never(prop_name) == FALSE

\* `if prop_name == 'Tag': continue` in build_tree
IsTag(prop_name) == prop_name = s_Tag

\* sorted(self.resources.items()) of File.output: the root class names
RootOrder(res, seed) == sorted(DictKeys(res, seed))

(***************************************************************************)
(* output_class                                                            *)
(***************************************************************************)
\* properties.iteritems() without sorted()
FieldOrder_unsorted(props, seed) == DictKeys(props, seed)

\* sorted(properties.iteritems()): the field names in rendering order
FieldOrder(props, seed) == sorted(DictKeys(props, seed))

\* The type column of one rendered field (lines 398-405)
ValueType(o, class_name, key, value) ==
    LET value_type == IF key = s_Tags THEN s_Tags ELSE get_type(value)
        custom_validator == Override_get_validator(o, class_name, key)
    IN  IF custom_validator # None THEN custom_validator.v ELSE value_type

\* The required column of one rendered field (lines 407-409)
RequiredFlag(o, class_name, key, value) ==
    LET required == Override_get_required(o, class_name, key)
    IN  IF required = None THEN get_required(value) ELSE required.v

\* One rendered entry of the props dict
RenderField(o, class_name, key, value) ==
    [key |-> key,
     value_type |-> ValueType(o, class_name, key, value),
     required |-> RequiredFlag(o, class_name, key, value)]

\* The rendered props dict, for the field names in rendering order
RenderFields(o, class_name, props, keys) ==
    [i \in 1..Len(keys) |-> RenderField(o, class_name, keys[i], props[keys[i]])]

\* output_class: the rendered class
output_class(class_name, props, o, resource_name, seed) ==
    LET class_validator == Override_get_class_validator(o, class_name)
    IN  [name |-> class_name,
         mixin |-> IF class_validator # None /\ class_validator.v # <<>>
                   THEN class_validator.v \o <<",", " ">> ELSE <<>>,
         base |-> IF resource_name # None THEN s_AWSObject ELSE s_AWSProperty,
         resource_type |-> resource_name,
         props |-> CHOOSE r \in {RenderFields(o, class_name, props, keys) :
                                    keys \in {FieldOrder(props, seed)}} : TRUE]

(***************************************************************************)
(* File.output as a state machine                                          *)
(***************************************************************************)
\* s.rstrip(): drops trailing whitespace
RECURSIVE rstrip(_)
rstrip(s) ==
    IF s = <<>> THEN s
    ELSE IF s[Len(s)] \in {" ", "\n", "\t"} THEN rstrip(SubSeq(s, 1, Len(s) - 1))
    ELSE s

Seeds == 0..MaxSeed

\* What one run has printed, and how it ended
Printed == [imports |-> printedImports, header |-> printedHeader,
            classes |-> printedClasses, exc |-> exc]

NoOutput == [imports |-> <<>>, header |-> <<>>, classes |-> <<>>, exc |-> s_NoExc]

\* The state of a File object on which output() is about to be called
StartOfRun ==
    /\ pc = "start"
    /\ exc = s_NoExc
    /\ printedImports = <<>>
    /\ printedHeader = <<>>
    /\ printedClasses = <<>>
    /\ roots = <<>>
    /\ tree = <<>>
    /\ bstack = <<>>
    /\ ostack = <<>>
    /\ seen = {}

input == <<filename, resources, properties, resource_names, override, hashseed, run,
           firstOutput>>

\* The exception e ends the run.
Raised(e) ==
    /\ pc' = "raised"
    /\ exc' = e

\* File.output, lines 276-277: the banner and _output_imports
OutputImports ==
    /\ pc = "start"
    /\ printedImports' = printedImports \o File_output_imports(resources, properties)
    /\ pc' = "tags"
    /\ UNCHANGED <<input, exc, printedHeader, printedClasses, roots, tree, bstack,
                   ostack, seen>>

\* File.output, line 278: _output_tags
OutputTags ==
    /\ pc = "tags"
    /\ printedImports' = printedImports \o File_output_tags(resources, properties, override)
    /\ pc' = "validators"
    /\ UNCHANGED <<input, exc, printedHeader, printedClasses, roots, tree, bstack,
                   ostack, seen>>

\* File.output, line 279: _output_validators.  The boolean and integer
\* lines are printed before get_validator_list is called and may raise.
OutputValidators ==
    /\ pc = "validators"
    /\ \E vlist \in {Override_get_validator_list(override, hashseed)} :
       \E common \in {CommonValidatorImports(resources, properties)} :
           IF vlist.raised
           THEN /\ printedImports' = printedImports \o common
                /\ Raised(vlist.exc)
           ELSE /\ printedImports' = printedImports \o common \o
                       [i \in 1..Len(vlist.v) |-> ValidatorImport(filename, vlist.v[i])]
                /\ pc' = "header"
                /\ UNCHANGED exc
    /\ UNCHANGED <<input, printedHeader, printedClasses, roots, tree, bstack,
                   ostack, seen>>

\* File.output, lines 280-286: the header block, then seen = {} and the
\* sorted roots of the loop of line 287
OutputHeader ==
    /\ pc = "header"
    /\ LET header == Override_get_header(override)
       IN  IF header.raised
           THEN /\ Raised(header.exc)
                /\ UNCHANGED <<printedHeader, seen, roots>>
           ELSE /\ printedHeader' = IF header.v # <<>> THEN rstrip(header.v) ELSE <<>>
                /\ seen' = {}
                /\ roots' = RootOrder(resources, hashseed)
                /\ pc' = "roots"
                /\ UNCHANGED exc
    /\ UNCHANGED <<input, printedImports, printedClasses, tree, bstack, ostack>>

\* File.output, lines 287-289: the next root and the call of build_tree on
\* it; the loop ends, and output() returns, when no root is left.
StartRoot ==
    /\ pc = "roots"
    /\ IF roots = <<>>
       THEN /\ pc' = "done"
            /\ UNCHANGED <<roots, tree, bstack>>
       ELSE LET class_name == roots[1]
                props == resources[class_name]
            IN  /\ tree' = (<<>> :> Node(class_name, props,
                                         Some(resource_names[class_name])))
                /\ bstack' = <<[path |-> <<>>,
                                prop_type_list |-> BuildTypeList(props, hashseed),
                                i |-> 1]>>
                /\ roots' = Tail(roots)
                /\ pc' = "build"
    /\ UNCHANGED <<input, exc, printedImports, printedHeader, printedClasses,
                   ostack, seen>>

\* build_tree, lines 252-255: one iteration of the loop over prop_type_list,
\* up to the recursive call
BuildDescend ==
    /\ pc = "build"
    /\ LET f == bstack[Len(bstack)]
       IN  /\ f.i <= Len(f.prop_type_list)
           /\ LET prop_name == f.prop_type_list[f.i]
                  child == f.path \o <<tree[f.path].nchildren + 1>>
              IN  IF IsTag(prop_name)
                  THEN /\ bstack' = [bstack EXCEPT ![Len(bstack)].i = f.i + 1]
                       /\ UNCHANGED <<tree, pc, exc>>
                  ELSE IF prop_name \notin DOMAIN properties
                  THEN /\ Raised(s_KeyError)
                       /\ UNCHANGED <<tree, bstack>>
                  ELSE IF Len(bstack) >= MaxDepth
                  THEN /\ Raised(s_RecursionError)
                       /\ UNCHANGED <<tree, bstack>>
                  ELSE /\ tree' = tree @@
                            (child :> Node(prop_name, properties[prop_name], None))
                       /\ bstack' = Append(bstack,
                            [path |-> child,
                             prop_type_list |->
                                 BuildTypeList(properties[prop_name], hashseed),
                             i |-> 1])
                       /\ UNCHANGED <<pc, exc>>
    /\ UNCHANGED <<input, printedImports, printedHeader, printedClasses, roots,
                   ostack, seen>>

\* build_tree, lines 250 and 256-258: the return of a call; the caller adds
\* the child and goes on with its loop, and the return of the root's call
\* is followed by the call of output_tree (line 290).
BuildReturn ==
    /\ pc = "build"
    /\ LET f == bstack[Len(bstack)]
           rest == SubSeq(bstack, 1, Len(bstack) - 1)
       IN  /\ f.i > Len(f.prop_type_list)
           /\ IF rest = <<>>
              THEN /\ bstack' = <<>>
                   /\ ostack' = <<[path |-> <<>>, i |-> 1]>>
                   /\ pc' = "emit"
                   /\ UNCHANGED tree
              ELSE LET caller == rest[Len(rest)]
                   IN  /\ tree' = [tree EXCEPT ![caller.path].nchildren = @ + 1]
                       /\ bstack' = [rest EXCEPT ![Len(rest)].i = caller.i + 1]
                       /\ UNCHANGED <<ostack, pc>>
    /\ UNCHANGED <<input, exc, printedImports, printedHeader, printedClasses,
                   roots, seen>>

\* output_tree without the loop over the children
ChildrenDone_no_loop(f, t) == TRUE

\* output_tree, lines 264-265: every child has been recursed into
ChildrenDone(f, t) == f.i > t.nchildren

\* output_tree, lines 264-265: the recursive call on the next child
OutputDescend ==
    /\ pc = "emit"
    /\ LET f == ostack[Len(ostack)]
       IN  /\ ~ChildrenDone(f, tree[f.path])
           /\ ostack' = Append([ostack EXCEPT ![Len(ostack)].i = f.i + 1],
                               [path |-> f.path \o <<f.i>>, i |-> 1])
    /\ UNCHANGED <<input, pc, exc, printedImports, printedHeader, printedClasses,
                   roots, tree, bstack, seen>>

\* output_tree, line 266: `if t.name in seen: return`
AlreadySeen(name, seenNames) == name \in seenNames

\* output_tree, lines 266-272: after the children, the node itself, unless
\* its name has been seen; then the return of the call
OutputVisit ==
    /\ pc = "emit"
    /\ LET f == ostack[Len(ostack)]
           t == tree[f.path]
       IN  /\ ChildrenDone(f, t)
           /\ IF AlreadySeen(t.name, seen)
              THEN UNCHANGED <<seen, printedClasses>>
              ELSE /\ seen' = seen \cup {t.name}
                   /\ printedClasses' = Append(printedClasses,
                          output_class(t.name, t.props, override, t.resource_name,
                                       hashseed))
           /\ ostack' = SubSeq(ostack, 1, Len(ostack) - 1)
           /\ pc' = IF Len(ostack) = 1 THEN "roots" ELSE "emit"
    /\ UNCHANGED <<input, exc, printedImports, printedHeader, roots, tree, bstack>>

\* The same input is compiled once more, by a process whose dicts iterate
\* in the next order.
Rerun ==
    /\ pc \in {"done", "raised"}
    /\ run = 1
    /\ run' = 2
    /\ firstOutput' = Printed
    /\ hashseed' = (hashseed + 1) % (MaxSeed + 1)
    /\ pc' = "start"
    /\ exc' = s_NoExc
    /\ printedImports' = <<>>
    /\ printedHeader' = <<>>
    /\ printedClasses' = <<>>
    /\ roots' = <<>>
    /\ tree' = <<>>
    /\ bstack' = <<>>
    /\ ostack' = <<>>
    /\ seen' = {}
    /\ UNCHANGED <<filename, resources, properties, resource_names, override>>

Next ==
    \/ OutputImports
    \/ OutputTags
    \/ OutputValidators
    \/ OutputHeader
    \/ StartRoot
    \/ BuildDescend
    \/ BuildReturn
    \/ OutputDescend
    \/ OutputVisit
    \/ Rerun

(***************************************************************************)
(* The inputs: the File objects output() is called on                      *)
(***************************************************************************)
c_Bar == <<"B","a","r">>
c_Baz == <<"B","a","z">>
c_Foo == <<"F","o","o">>
f_A == <<"A">>
f_B == <<"B">>
s_foo == <<"f","o","o">>
s_Blob == <<"B","l","o","b">>

\* Validator names of override documents
v_common_vpc == s_common \o <<"v","p","c">>
v_common_net == s_common \o <<"n","e","t">>
v_mix == <<"m","i","x">>
v_port == <<"p","o","r","t">>

\* A header block
h_import == <<"i","m","p","o","r","t"," ","r","e","\n">>

\* Field descriptors of the catalog
Prim(n, r) == [PrimitiveType |-> n, Required |-> r]
PrimList(n, r) == [Type |-> s_List, PrimitiveItemType |-> n, Required |-> r]
ItemList(n, r) == [Type |-> s_List, ItemType |-> n, Required |-> r]
MapOf(n, r) == [Type |-> s_Map, PrimitiveItemType |-> n, Required |-> r]
Ref(n, r) == [Type |-> n, Required |-> r]

EmptyDict == <<>>

\* The dicts with at most the key k, mapped to a value of S
Opt(k, S) == {EmptyDict} \cup {k :> d : d \in S}

\* "AWS::Foo::<class_name>"
ResourceTypeOf(class_name) ==
    <<"A","W","S",":",":","F","o","o",":",":">> \o class_name

InitFile(res, props, o) ==
    /\ filename = s_foo
    /\ resources = res
    /\ properties = props
    /\ resource_names = [c \in DOMAIN res |-> ResourceTypeOf(c)]
    /\ override = o
    /\ hashseed \in Seeds
    /\ run = 1
    /\ firstOutput = NoOutput
    /\ StartOfRun

\* Reference graphs: resources Bar and Foo, properties Bar and Baz; shared
\* properties, a property named like a resource, references to Tag, two
\* fields of one type, cycles and references to a missing property.
GraphResourceProps ==
    {a @@ b :
        a \in Opt(f_A, {Ref(c_Bar, TRUE), ItemList(c_Baz, FALSE), ItemList(s_Tag, FALSE)}),
        b \in Opt(f_B, {Ref(c_Baz, FALSE)})}

GraphResources ==
    {r @@ s : r \in Opt(c_Bar, GraphResourceProps), s \in Opt(c_Foo, GraphResourceProps)}
        \ {EmptyDict}

GraphProperties ==
    {p @@ q :
        p \in {c_Bar :> a : a \in Opt(f_A, {Ref(c_Baz, TRUE), Ref(c_Bar, FALSE)})},
        q \in Opt(c_Baz, Opt(f_A, {Ref(c_Bar, FALSE), ItemList(s_Tag, FALSE)}))}

InitGraph ==
    \E res \in GraphResources, props \in GraphProperties :
        InitFile(res, props, EmptyDict)

\* Field types: resource Foo with a field of every kind and a reference to
\* property Bar, which has a field of every kind.
TypeNames == {s_Boolean, s_Integer, s_Long, s_String, s_Blob}

TypeDescriptors ==
    {Prim(n, TRUE) : n \in TypeNames} \cup {PrimList(n, FALSE) : n \in TypeNames}
        \cup {MapOf(s_String, FALSE)}

InitTypes ==
    \E d1 \in TypeDescriptors, d2 \in TypeDescriptors :
        InitFile(c_Foo :> ((f_A :> d1) @@ (f_B :> Ref(c_Bar, FALSE))),
                 c_Bar :> (f_A :> d2),
                 EmptyDict)

\* Override documents over a catalog with Tags fields.
OverrideResources ==
    {c_Foo :> ((f_A :> Prim(s_Integer, TRUE)) @@ (f_B :> Ref(c_Bar, FALSE)) @@ t) :
        t \in Opt(s_Tags, {ItemList(s_Tag, FALSE)})}

OverrideProperties ==
    {c_Bar :> ((f_A :> Prim(s_Boolean, FALSE)) @@ t) :
        t \in Opt(s_Tags, {ItemList(s_Tag, TRUE)})}

FooEntries ==
    {v @@ [fields |-> t @@ a] :
        v \in {EmptyDict, [validator |-> v_common_vpc]},
        t \in Opt(s_Tags, {EmptyDict} \cup
                 {[validator |-> n] : n \in {v_common_vpc, v_common_net, v_mix, s_dict}}),
        a \in Opt(f_A, {[required |-> TRUE], [required |-> FALSE],
                        [required |-> FALSE, validator |-> v_port]})}

BarEntries ==
    {[fields |-> (s_Tags :> [validator |-> v_port])],
     [validator |-> v_mix, fields |-> (f_A :> [required |-> TRUE])]}

OverrideClasses ==
    {f @@ b : f \in Opt(c_Foo, FooEntries), b \in Opt(c_Bar, BarEntries)}

OverrideDocuments ==
    {None, EmptyDict, [header |-> h_import]}
        \cup {[classes |-> c] : c \in OverrideClasses}
        \cup {[header |-> h_import, classes |-> c] : c \in OverrideClasses}

InitOverride ==
    \E res \in OverrideResources, props \in OverrideProperties,
       o \in OverrideDocuments :
        InitFile(res, props, o)

Init == InitGraph \/ InitTypes \/ InitOverride

Spec == Init /\ [][Next]_vars

\* The compilation of the reference graphs alone.  output() is a sequential
\* program: a step that can be taken is taken.
TreeSpec == InitGraph /\ [][Next]_vars /\ WF_vars(Next)

(***************************************************************************)
(* Vocabulary of the properties                                            *)
(***************************************************************************)
\* The names a field descriptor references as a non-primitive type
Mentions(value) ==
    IF "PrimitiveType" \in DOMAIN value THEN {}
    ELSE IF value.Type = s_List
         THEN (IF "ItemType" \in DOMAIN value THEN {value.ItemType} ELSE {})
         ELSE IF value.Type = s_Map THEN {} ELSE {value.Type}

\* The definitions a field table depends on: every referenced name but Tag
DependsOn(props) == (UNION {Mentions(props[k]) : k \in DOMAIN props}) \ {s_Tag}

IsResource(c) == c.resource_type # None

\* The catalog's field table of the definition rendered as c
CatalogProps(c) == IF IsResource(c) THEN resources[c.name] ELSE properties[c.name]

\* The positions of the output at which a class named n is rendered
RenderingsOf(n) == {j \in DOMAIN printedClasses : printedClasses[j].name = n}

\* The override document sets classes.D.F.<key>
Explicit(D, F, key) ==
    /\ override # None
    /\ "classes" \in DOMAIN override
    /\ D \in DOMAIN override.classes
    /\ F \in DOMAIN override.classes[D].fields
    /\ key \in DOMAIN override.classes[D].fields[F]

TagsImport == ImportLine(s_troposphere, s_Tags)
IntegerImport == ImportLine(s_dot \o s_validators, s_integer)
BooleanImport == ImportLine(s_dot \o s_validators, s_boolean)

Finished == pc \in {"done", "raised"}

\* The properties a set of names reaches through the property table
RECURSIVE Reach(_)
Reach(S) ==
    LET step == S \cup UNION {DependsOn(properties[n]) : n \in S \cap DOMAIN properties}
    IN  IF step = S THEN S ELSE Reach(step)

ReachedFromResources ==
    Reach(UNION {DependsOn(resources[r]) : r \in DOMAIN resources})

\* No property reaches itself
Acyclic == \A n \in DOMAIN properties : n \notin Reach(DependsOn(properties[n]))

\* Every referenced type other than Tag is a property of the grouping
Closed ==
    /\ \A r \in DOMAIN resources : DependsOn(resources[r]) \subseteq DOMAIN properties
    /\ \A n \in DOMAIN properties : DependsOn(properties[n]) \subseteq DOMAIN properties

(***************************************************************************)
(* C1  Dependency safety: whenever a definition A has been rendered, every *)
(* definition name its field table references as a non-primitive type      *)
(* (Tag excepted) has been rendered exactly once, at an earlier position   *)
(* of the output than A.                                                   *)
(***************************************************************************)
DependencySafety ==
    \A i \in DOMAIN printedClasses :
        \A B \in DependsOn(CatalogProps(printedClasses[i])) :
            /\ Cardinality(RenderingsOf(B)) = 1
            /\ \A j \in RenderingsOf(B) : j < i

\* Two roots that both reference property Baz have been rendered, after it.
DependencySafetyWitness ==
    /\ pc = "done"
    /\ Len(printedClasses) >= 3
    /\ \A r \in {c_Bar, c_Foo} :
          /\ r \in DOMAIN resources
          /\ c_Baz \in DependsOn(resources[r])
          /\ \E i \in DOMAIN printedClasses :
                printedClasses[i].name = r /\ IsResource(printedClasses[i])

(***************************************************************************)
(* C2  Exactly-once emission: when output() has returned, every resource   *)
(* definition and every property definition reached from a resource has    *)
(* been rendered exactly once.                                             *)
(***************************************************************************)
ExactlyOnce ==
    pc = "done" =>
        /\ \A r \in DOMAIN resources :
              Cardinality({i \in DOMAIN printedClasses :
                              /\ printedClasses[i].name = r
                              /\ IsResource(printedClasses[i])}) = 1
        /\ \A n \in ReachedFromResources :
              Cardinality({i \in DOMAIN printedClasses :
                              /\ printedClasses[i].name = n
                              /\ ~IsResource(printedClasses[i])}) = 1

(***************************************************************************)
(* C3  Override precedence for requiredness: the required flag of every    *)
(* rendered field is the value the override document sets explicitly for   *)
(* it (true or false), and the catalog's Required flag if it sets none;    *)
(* the lookup itself returns the explicit value, and None if none is set.  *)
(***************************************************************************)
RequiredPrecedence ==
    /\ \A i \in DOMAIN printedClasses :
          LET c == printedClasses[i]
          IN  \A j \in DOMAIN c.props :
                  LET F == c.props[j].key
                  IN  c.props[j].required =
                          IF Explicit(c.name, F, "required")
                          THEN override.classes[c.name].fields[F].required
                          ELSE CatalogProps(c)[F].Required
    /\ \A D \in DOMAIN resources \cup DOMAIN properties : \A F \in {s_Tags, f_A, f_B} :
          Override_get_required(override, D, F) =
              IF Explicit(D, F, "required")
              THEN Some(override.classes[D].fields[F].required)
              ELSE None

\* A field the catalog requires has been rendered as not required, by an
\* explicit false of the override document.
RequiredPrecedenceWitness ==
    \E i \in DOMAIN printedClasses :
        LET c == printedClasses[i]
        IN  \E j \in DOMAIN c.props :
                /\ Explicit(c.name, c.props[j].key, "required")
                /\ ~override.classes[c.name].fields[c.props[j].key].required
                /\ CatalogProps(c)[c.props[j].key].Required
                /\ ~c.props[j].required

Ascending(names) ==
    \A i \in 1..(Len(names) - 1) : names[i] = names[i + 1] \/ StrLess(names[i], names[i + 1])

StrictlyAscending(names) ==
    \A i \in 1..(Len(names) - 1) : StrLess(names[i], names[i + 1])

DeterministicOrder ==
    /\ (run = 2 /\ Finished) => Printed = firstOutput
    /\ StrictlyAscending(roots)
    /\ StrictlyAscending(
          LET rs == {i \in DOMAIN printedClasses : IsResource(printedClasses[i])}
              idx == CHOOSE f \in [1..Cardinality(rs) -> rs] :
                        \A a, b \in 1..Cardinality(rs) : a < b => f[a] < f[b]
          IN  [k \in 1..Cardinality(rs) |-> printedClasses[idx[k]].name])
    /\ \A path \in DOMAIN tree :
          Ascending([k \in 1..tree[path].nchildren |-> tree[path \o <<k>>].name])
    /\ \A i \in DOMAIN printedClasses :
          StrictlyAscending([j \in DOMAIN printedClasses[i].props |->
                                printedClasses[i].props[j].key])

\* The second run has returned; two roots were processed, one of them with
\* two children, and a class with two fields was rendered.
DeterministicOrderWitness ==
    /\ run = 2
    /\ pc = "done"
    /\ Cardinality(DOMAIN resources) = 2
    /\ Len(printedClasses) >= 3
    /\ \E path \in DOMAIN tree : tree[path].nchildren = 2
    /\ \E i \in DOMAIN printedClasses : Len(printedClasses[i].props) >= 2

(***************************************************************************)
(* C6  The override resolver never raises for missing data: on a document  *)
(* that is absent or empty or has no classes section, every accessor       *)
(* returns its unset value, and so does a lookup of a definition or field  *)
(* the document has no entry for.                                          *)
(***************************************************************************)
ResolverNeverRaises ==
    LET names == DOMAIN resources \cup DOMAIN properties
        fields == {s_Tags, f_A, f_B}
        NoClasses == override = None \/ "classes" \notin DOMAIN override
        NoEntry(D) == NoClasses \/ D \notin DOMAIN override.classes
    IN  /\ (override = None \/ "header" \notin DOMAIN override)
              => Override_get_header(override) = Return(<<>>)
        /\ NoClasses => Override_get_validator_list(override, hashseed) = Return(<<>>)
        /\ \A D \in names :
              /\ NoEntry(D) => Override_get_class_validator(override, D) = None
              /\ \A F \in fields :
                    (NoEntry(D) \/ F \notin DOMAIN override.classes[D].fields)
                        => /\ Override_get_required(override, D, F) = None
                           /\ Override_get_validator(override, D, F) = None

(***************************************************************************)
(* C7  Validator prefix stripping: for every validator name v of the       *)
(* override document, get_validator and get_class_validator return v       *)
(* without a leading "common/" and otherwise unchanged, and so does the    *)
(* name in the import line of v.                                           *)
(***************************************************************************)
RemovePrefix(v) ==
    IF startswith(v, s_common) THEN SubSeq(v, Len(s_common) + 1, Len(v)) ELSE v

PrefixStripping ==
    (override # None /\ "classes" \in DOMAIN override) =>
        \A D \in DOMAIN override.classes :
            LET entry == override.classes[D]
            IN  /\ "validator" \in DOMAIN entry =>
                      /\ Override_get_class_validator(override, D)
                             = Some(RemovePrefix(entry.validator))
                      /\ ValidatorImport(filename, entry.validator).import
                             = RemovePrefix(entry.validator)
                /\ \A F \in DOMAIN entry.fields :
                      "validator" \in DOMAIN entry.fields[F] =>
                          /\ Override_get_validator(override, D, F)
                                 = Some(RemovePrefix(entry.fields[F].validator))
                          /\ ValidatorImport(filename, entry.fields[F].validator).import
                                 = RemovePrefix(entry.fields[F].validator)

(***************************************************************************)
(* C8  Unknown primitive pass-through: a rendered field without validator  *)
(* override whose primitive type name n is no key of map_type has the type *)
(* n if it is a scalar and [n] if it is a list, and no run is rejected for *)
(* it.                                                                     *)
(***************************************************************************)
UnknownPrimitivePassThrough ==
    \A i \in DOMAIN printedClasses :
        LET c == printedClasses[i]
        IN  \A j \in DOMAIN c.props :
                LET value == CatalogProps(c)[c.props[j].key]
                IN  (c.props[j].key # s_Tags
                        /\ ~Explicit(c.name, c.props[j].key, "validator")) =>
                    /\ ("PrimitiveType" \in DOMAIN value
                            /\ value.PrimitiveType \notin DOMAIN map_type)
                          => c.props[j].value_type = value.PrimitiveType
                    /\ ("PrimitiveType" \notin DOMAIN value
                            /\ value.Type = s_List
                            /\ "ItemType" \notin DOMAIN value
                            /\ value.PrimitiveItemType \notin DOMAIN map_type)
                          => c.props[j].value_type = Bracket(value.PrimitiveItemType)

(***************************************************************************)
(* C10  Import coverage: whenever a rendered field has the type integer or *)
(* [integer], the line importing integer has been printed, and whenever    *)
(* one has the type boolean or [boolean], the line importing boolean.      *)
(***************************************************************************)
ImportCoverage ==
    \A i \in DOMAIN printedClasses :
        \A j \in DOMAIN printedClasses[i].props :
            LET t == printedClasses[i].props[j].value_type
            IN  /\ t \in {s_integer, Bracket(s_integer)}
                      => InList(IntegerImport, printedImports)
                /\ t \in {s_boolean, Bracket(s_boolean)}
                      => InList(BooleanImport, printedImports)

(***************************************************************************)
(* C9  Termination of tree building and emission: once output() has        *)
(* reached its loop over the roots of a grouping whose property reference  *)
(* graph is acyclic and whose referenced types are all properties of the   *)
(* grouping, it returns, having processed every root; and a node whose     *)
(* definition references no type but Tag has no children.                  *)
(***************************************************************************)
TreeTermination ==
    /\ (pc = "roots" /\ Acyclic /\ Closed)
           ~> (pc = "done" /\ roots = <<>> /\ DOMAIN resources \subseteq seen)
    /\ [](\A path \in DOMAIN tree :
             DependsOn(tree[path].props) = {} => tree[path].nchildren = 0)

\* output() has returned on an acyclic, closed grouping; the last tree has
\* a node at depth 2 and a leaf whose only reference is to Tag.
TreeTerminationWitness ==
    /\ pc = "done"
    /\ Acyclic
    /\ Closed
    /\ \E path \in DOMAIN tree : Len(path) = 2
    /\ \E path \in DOMAIN tree :
          /\ tree[path].nchildren = 0
          /\ \E k \in DOMAIN tree[path].props : s_Tag \in Mentions(tree[path].props[k])
====
